---------------------------- MODULE Spec2Model ----------------------------
(***************************************************************************)
(* The hybrid classification cascade of the ML classifier service          *)
(* (domain/classifiers/hybrid.py): ClassificationMetrics, CircuitBreaker    *)
(* and HybridClassifier, run by an asyncio event loop.                      *)
(*                                                                          *)
(* The event loop is single-threaded: the code between two awaits of a      *)
(* coroutine runs without interleaving, so every action below is the whole  *)
(* stretch of code from one suspension point to the next.  classify() wraps *)
(* _classify_internal() in asyncio.wait_for: pc[r] is the position of the   *)
(* outer classify() call of request r, task[r] the position of the inner    *)
(* task running _classify_internal().                                       *)
(*                                                                          *)
(* Confidences are in hundredths (0.85 is 85).  Time is a discrete clock    *)
(* `now`; time.time() and time.perf_counter() both read it, and a latency   *)
(* is the number of ticks between two readings.                             *)
(*                                                                          *)
(* The training side of the service is modelled next to it: the             *)
(* model_versions table written by TrainingDataRepository.save_model_version *)
(* (infrastructure/database.py) and the sample check of retrain_model        *)
(* (api/routes/training.py).  Every SQL statement is atomic; a coroutine     *)
(* can be suspended between two awaited statements.                          *)
(***************************************************************************)
EXTENDS Integers, Sequences, FiniteSets, TLC

\* ------------------------------------------------------------- bounds
\* number of classify() calls made on the one HybridClassifier
NReq == 2
\* the clock runs from 0 to MaxTime
MaxTime == 3
\* CircuitBreaker(failure_threshold=...), a constructor parameter (default 5)
FailureThreshold == 1
\* CircuitBreaker(recovery_timeout=...), a constructor parameter (default
\* 30.0 s), in clock ticks
RecoveryTimeout == 2
\* HybridClassifier.CLASSIFICATION_TIMEOUT (5.0 s, overridden per instance by
\* the tests), in clock ticks
ClassificationTimeout == 2
\* the largest failure_threshold a CircuitBreaker used on its own is
\* constructed with
MaxThreshold == 2
\* record_failure() is called on a CircuitBreaker used on its own while
\* failure_count is below MaxFailures
MaxFailures == 4

\* classifications recorded directly on a ClassificationMetrics
MaxTotal == 3
\* latencies passed to record_classification: 0..MaxLatency
MaxLatency == 1
\* trips and timeouts counted directly on a ClassificationMetrics
MaxEvents == 1

\* ------------------------------------------------------------- program constants
\* number of save_model_version() calls made on the one repository
NSavers == 2
\* the version tags a caller can pass are 1..NVersions
NVersions == 2
\* each of the two sample tables holds 0..MaxRows usable rows
MaxRows == 102
\* TrainingRequest.min_samples is drawn from MIN_SAMPLES..MaxMinSamples
MaxMinSamples == 101

\* ------------------------------------------------------------- constants
\* TrainingRequest.min_samples: Field(1000, ge=100, le=100000)
MIN_SAMPLES == 100
HEURISTIC_THRESHOLD == 85
ML_THRESHOLD == 70
\* LLMClassifier.classify returns confidence 0.98
LLM_CONFIDENCE == 98

Reqs == 1..NReq
Time == 0..MaxTime

\* the task descriptions of the requests, and the heuristic confidence of each
Descriptions == {"vague", "clear", "obvious"}
HeuristicConfidence(d) ==
    CASE d = "vague"   -> 84
      [] d = "clear"   -> 85
      [] d = "obvious" -> 90

\* the confidences an ML result can carry
MLConfidences == {69, 70}

\* a local variable that was never assigned
Unbound == [classifier_used |-> "unbound", confidence |-> 0, reasoning |-> << >>]

\* the reasoning prefixes of the three fallbacks
TIMEOUT_NOTICE == "Classification timeout - using heuristic fallback: "
CIRCUIT_NOTICE == "Circuit breaker open - using fallback: "
LLM_FAILED_NOTICE == "LLM failed - using fallback: "
Notices == {TIMEOUT_NOTICE, CIRCUIT_NOTICE, LLM_FAILED_NOTICE}

VARIABLES
    now,                    \* the clock
    ml_classifier,          \* self.ml_classifier is not None
    enable_circuit_breaker, \* self.circuit_breaker is not None
    metrics,                \* self.metrics
    circuit_breaker,        \* self.circuit_breaker
    pc,                     \* per request: position of classify()
    task,                   \* per request: position of the _classify_internal task
    frame,                  \* per request: the local variables of the call
    result,                 \* per request: what classify() returned
    calls,                  \* per request: how often each tier was invoked
    pool,                   \* self.db and self.db.pool are set
    model_versions,         \* table model_versions: per version, its is_active
    save,                   \* per save_model_version() call: position and arguments
    training_samples,       \* table training_samples: number of usable rows
    classification_feedback,\* table classification_feedback: number of usable rows
    min_samples,            \* request.min_samples of the retraining request
    response                \* what retrain_model answered

\* the classifier
cascade == << now, ml_classifier, enable_circuit_breaker, metrics, circuit_breaker,
              pc, task, frame, result, calls >>

\* the repository and the retraining request
training == << pool, model_versions, save, training_samples,
               classification_feedback, min_samples, response >>

vars == << cascade, training >>

\* ------------------------------------------------------------- the training store
Savers == 1..NSavers
Versions == 1..NVersions

\* no call of save_model_version() made yet
NoSave == [pc |-> "idle", version |-> 0, is_active |-> FALSE]

\* CREATE TABLE IF NOT EXISTS model_versions: no row stored
NoVersions == [v \in Versions |-> "absent"]

\* A connected repository with empty tables and no request made: the training
\* side while the classifier is looked at.
InitTraining ==
    /\ pool = TRUE
    /\ model_versions = NoVersions
    /\ save = [s \in Savers |-> NoSave]
    /\ training_samples = 0
    /\ classification_feedback = 0
    /\ min_samples = MIN_SAMPLES
    /\ response = "none"

\* ------------------------------------------------------------- ClassificationMetrics
NewMetrics ==
    [ total_classifications |-> 0, heuristic_used |-> 0, ml_used |-> 0,
      llm_used |-> 0, total_latency_ms |-> 0, circuit_breaker_trips |-> 0,
      timeouts |-> 0 ]

\* record_classification that counts an "llm" classification in the total only
record_classification_drops_llm(m, classifier_used, latency_ms) ==
    LET m1 == [m EXCEPT !.total_classifications = @ + 1,
                        !.total_latency_ms = @ + latency_ms]
    IN  IF classifier_used = "heuristic"
        THEN [m1 EXCEPT !.heuristic_used = @ + 1]
        ELSE IF classifier_used = "ml"
        THEN [m1 EXCEPT !.ml_used = @ + 1]
        ELSE m1

\* record_classification ending in else instead of elif "llm"
record_classification_else_llm(m, classifier_used, latency_ms) ==
    LET m1 == [m EXCEPT !.total_classifications = @ + 1,
                        !.total_latency_ms = @ + latency_ms]
    IN  IF classifier_used = "heuristic"
        THEN [m1 EXCEPT !.heuristic_used = @ + 1]
        ELSE IF classifier_used = "ml"
        THEN [m1 EXCEPT !.ml_used = @ + 1]
        ELSE [m1 EXCEPT !.llm_used = @ + 1]

record_classification(m, classifier_used, latency_ms) ==
    LET m1 == [m EXCEPT !.total_classifications = @ + 1,
                        !.total_latency_ms = @ + latency_ms]
    IN  IF classifier_used = "heuristic"
        THEN [m1 EXCEPT !.heuristic_used = @ + 1]
        ELSE IF classifier_used = "ml"
        THEN [m1 EXCEPT !.ml_used = @ + 1]
        ELSE IF classifier_used = "llm"
        THEN [m1 EXCEPT !.llm_used = @ + 1]
        ELSE m1

\* A quotient is kept as the fraction << numerator, denominator >>, so that
\* count / total * 100 is exact; the binary rounding of Python floats (one unit
\* in the last place) is not represented. Dividing by zero raises.
ZeroDivisionError == << 0, 0 >>
ZeroPercent == << 0, 1 >>

\* n / d
Quotient(n, d) ==
    IF d = 0 THEN ZeroDivisionError ELSE << n, d >>

\* q * k
Scaled(q, k) ==
    IF q = ZeroDivisionError THEN ZeroDivisionError ELSE << q[1] * k, q[2] >>

\* ClassificationMetrics.get_distribution()
get_distribution(m) ==
    IF m.total_classifications = 0
    THEN [ heuristic_percent |-> ZeroPercent, ml_percent |-> ZeroPercent,
           llm_percent |-> ZeroPercent ]
    ELSE [ heuristic_percent |->
               Scaled(Quotient(m.heuristic_used, m.total_classifications), 100),
           ml_percent |->
               Scaled(Quotient(m.ml_used, m.total_classifications), 100),
           llm_percent |->
               Scaled(Quotient(m.llm_used, m.total_classifications), 100) ]

\* ClassificationMetrics.get_average_latency_ms()
get_average_latency_ms(m) ==
    IF m.total_classifications = 0
    THEN ZeroPercent
    ELSE Quotient(m.total_latency_ms, m.total_classifications)

\* ClassificationMetrics.get_summary(), which HybridClassifier.get_metrics() returns
get_summary(m) ==
    LET distribution == get_distribution(m) IN
    [ total_classifications |-> m.total_classifications,
      heuristic_used |-> m.heuristic_used,
      ml_used |-> m.ml_used,
      llm_used |-> m.llm_used,
      heuristic_percent |-> distribution.heuristic_percent,
      ml_percent |-> distribution.ml_percent,
      llm_percent |-> distribution.llm_percent,
      average_latency_ms |-> get_average_latency_ms(m),
      circuit_breaker_trips |-> m.circuit_breaker_trips,
      timeouts |-> m.timeouts ]

\* ------------------------------------------------------------- CircuitBreaker
\* last_failure_time = -1 is None
NewCircuitBreaker ==
    [ failure_threshold |-> FailureThreshold,
      failure_count |-> 0, last_failure_time |-> -1, is_open |-> FALSE ]

\* record_success that resets the counter only
record_success_keeps_open(cb) ==
    [cb EXCEPT !.failure_count = 0]

record_success(cb) ==
    [cb EXCEPT !.failure_count = 0, !.is_open = FALSE]

\* record_failure that opens the circuit one failure late
record_failure_late(cb, t) ==
    LET cb1 == [cb EXCEPT !.failure_count = @ + 1, !.last_failure_time = t]
    IN  IF cb1.failure_count > cb1.failure_threshold
        THEN [cb1 EXCEPT !.is_open = TRUE]
        ELSE cb1

\* record_failure that keeps the time of the failure that opened the circuit
record_failure_keeps_opening_time(cb, t) ==
    LET cb1 == [cb EXCEPT !.failure_count = @ + 1,
                          !.last_failure_time = IF cb.is_open THEN @ ELSE t]
    IN  IF cb1.failure_count >= cb1.failure_threshold
        THEN [cb1 EXCEPT !.is_open = TRUE] ELSE cb1

record_failure(cb, t) ==
    LET cb1 == [cb EXCEPT !.failure_count = @ + 1, !.last_failure_time = t]
    IN  IF cb1.failure_count >= cb1.failure_threshold
        THEN [cb1 EXCEPT !.is_open = TRUE]
        ELSE cb1

\* can_attempt() that lets the window end one instant late (> for >=)
can_attempt_strict(cb, t) ==
    IF ~cb.is_open
    THEN [ok |-> TRUE, cb |-> cb]
    ELSE IF cb.last_failure_time = -1
    THEN [ok |-> TRUE, cb |-> cb]
    ELSE IF t - cb.last_failure_time > RecoveryTimeout
    THEN [ok |-> TRUE, cb |-> [cb EXCEPT !.is_open = FALSE, !.failure_count = 0]]
    ELSE [ok |-> FALSE, cb |-> cb]

\* can_attempt() whose recovery closes the breaker and keeps failure_count
can_attempt_keeps_count(cb, t) ==
    IF ~cb.is_open
    THEN [ok |-> TRUE, cb |-> cb]
    ELSE IF cb.last_failure_time = -1
    THEN [ok |-> TRUE, cb |-> cb]
    ELSE IF t - cb.last_failure_time >= RecoveryTimeout
    THEN [ok |-> TRUE, cb |-> [cb EXCEPT !.is_open = FALSE]]
    ELSE [ok |-> FALSE, cb |-> cb]

\* can_attempt() returns a boolean and may change the breaker: both are given
can_attempt(cb, t) ==
    IF ~cb.is_open
    THEN [ok |-> TRUE, cb |-> cb]
    ELSE IF cb.last_failure_time = -1
    THEN [ok |-> TRUE, cb |-> cb]
    ELSE IF t - cb.last_failure_time >= RecoveryTimeout
    THEN [ok |-> TRUE, cb |-> [cb EXCEPT !.is_open = FALSE, !.failure_count = 0]]
    ELSE [ok |-> FALSE, cb |-> cb]


\* ------------------------------------------------------------- the three tiers
\* HeuristicClassifier.classify(description): synchronous, a function of the
\* description
HeuristicClassify(d) ==
    [ classifier_used |-> "heuristic", confidence |-> HeuristicConfidence(d),
      reasoning |-> << "heuristic reasoning" >> ]

\* what MLClassifier.classify returns when it returns
MLResult(conf) ==
    [ classifier_used |-> "ml", confidence |-> conf,
      reasoning |-> << "ML model reasoning" >> ]

\* an LLM tier whose confidence goes down with every result it has given
LLMResultDegrading ==
    [ classifier_used |-> "llm", confidence |-> LLM_CONFIDENCE - metrics.llm_used,
      reasoning |-> << "LLM reasoning" >> ]

\* what LLMClassifier.classify returns when it returns
LLMResult ==
    [ classifier_used |-> "llm", confidence |-> LLM_CONFIDENCE,
      reasoning |-> << "LLM reasoning" >> ]

\* a notice put in front of the reasoning twice
AnnotateTwice(res, notice) ==
    [res EXCEPT !.reasoning = << notice, notice >> \o @]

\* result.reasoning = f"<notice>{result.reasoning}"
Annotate(res, notice) ==
    [res EXCEPT !.reasoning = << notice >> \o @]

\* ------------------------------------------------------------- HybridClassifier
\* the locals of a call before it starts
NoFrame ==
    [ task_description |-> "vague", overall_start |-> 0,
      heuristic_result |-> Unbound, ml_result |-> Unbound,
      ml_raised |-> FALSE, denied |-> FALSE, llm_raised |-> FALSE,
      timed_out |-> FALSE ]

NoCalls == [ heuristic |-> 0, ml |-> 0, llm |-> 0 ]

\* The locals of a call that has ended: what the call did is kept for
\* observation, its reading of the clock is dropped with the frame.
Ended(f) ==
    [f EXCEPT !.overall_start = 0]

\* The end of a stretch of _classify_internal of request r: the task is left at
\* tsk ("await_ml", "await_llm", "done" or "raised"), with locals f, tier
\* invocations c, metrics m and breaker cb. A task that ends hands its result
\* or its exception to the classify() call awaiting it in wait_for (outer is
\* the position of that call); nobody takes the result of a task whose
\* classify() call has already returned.
Finish(r, outer, tsk, f, res, m, cb, c) ==
    /\ frame' = [frame EXCEPT ![r] = IF tsk \in {"done", "raised"} THEN Ended(f) ELSE f]
    /\ calls' = [calls EXCEPT ![r] = c]
    /\ metrics' = m
    /\ circuit_breaker' = cb
    /\ task' = [task EXCEPT ![r] = tsk]
    /\ IF outer = "waiting" /\ tsk = "done"
       THEN /\ pc' = [pc EXCEPT ![r] = "returned"]
            /\ result' = [result EXCEPT ![r] = res]
       ELSE IF outer = "waiting" /\ tsk = "raised"
       THEN /\ pc' = [pc EXCEPT ![r] = "raised"]
            /\ UNCHANGED result
       ELSE /\ pc' = [pc EXCEPT ![r] = outer]
            /\ UNCHANGED result
    /\ UNCHANGED << training, now, ml_classifier, enable_circuit_breaker >>

\* fallback_result = ml_result if self.ml_classifier else heuristic_result
FallbackResult(f) ==
    IF ml_classifier THEN f.ml_result ELSE f.heuristic_result

\* a fallback recorded under the tier that was attempted
FallbackTierAttempted ==
    "llm"

\* a fallback always recorded under "ml"
FallbackTierAlwaysML ==
    "ml"

\* classifier_used = "ml" if self.ml_classifier else "heuristic"
FallbackTier ==
    IF ml_classifier THEN "ml" ELSE "heuristic"

\* The fallback of the circuit-open and of the LLM-failure path. Reading
\* ml_result when the ML call raised reads a local that was never assigned:
\* Python raises UnboundLocalError, which nothing in classify() catches.
Fallback(r, outer, f, c, m, cb, notice) ==
    IF FallbackResult(f) = Unbound
    THEN Finish(r, outer, "raised", f, Unbound, m, cb, c)
    ELSE Finish(r, outer, "done", f, Annotate(FallbackResult(f), notice),
                record_classification(m, FallbackTier, now - f.overall_start),
                cb, c)

\* Phase 3 up to the LLM call: the circuit breaker check, and either the
\* circuit-open fallback or the start of the LLM call.
Phase3(r, outer, f, c) ==
    LET ca == can_attempt(circuit_breaker, now) IN
    IF enable_circuit_breaker /\ ~ca.ok
    THEN Fallback(r, outer, [f EXCEPT !.denied = TRUE], c,
                  [metrics EXCEPT !.circuit_breaker_trips = @ + 1],
                  ca.cb, CIRCUIT_NOTICE)
    ELSE Finish(r, outer, "await_llm", f, Unbound, metrics,
                IF enable_circuit_breaker THEN ca.cb ELSE circuit_breaker,
                [c EXCEPT !.llm = @ + 1])

\* phase 1 with a heuristic confidence compared by > instead of >=
CallStrict(r, d) ==
    /\ pc[r] = "idle"
    /\ r > 1 => pc[r - 1] # "idle"
    /\ LET f == [NoFrame EXCEPT !.task_description = d,
                                !.overall_start = now,
                                !.heuristic_result = HeuristicClassify(d)]
           c == [NoCalls EXCEPT !.heuristic = 1]
       IN  IF f.heuristic_result.confidence > HEURISTIC_THRESHOLD
           THEN Finish(r, "waiting", "done", f, f.heuristic_result,
                       record_classification(metrics, "heuristic", 0),
                       circuit_breaker, c)
           ELSE IF ml_classifier
           THEN Finish(r, "waiting", "await_ml", f, Unbound, metrics,
                       circuit_breaker, [c EXCEPT !.ml = 1])
           ELSE Phase3(r, "waiting", f, c)

\* a cascade that goes from phase 1 to phase 3 and leaves the ML tier out
CallSkipsML(r, d) ==
    /\ pc[r] = "idle"
    /\ r > 1 => pc[r - 1] # "idle"
    /\ LET f == [NoFrame EXCEPT !.task_description = d,
                                !.overall_start = now,
                                !.heuristic_result = HeuristicClassify(d)]
           c == [NoCalls EXCEPT !.heuristic = 1]
       IN  IF f.heuristic_result.confidence >= HEURISTIC_THRESHOLD
           THEN Finish(r, "waiting", "done", f, f.heuristic_result,
                       record_classification(metrics, "heuristic", 0),
                       circuit_breaker, c)
           ELSE Phase3(r, "waiting", f, c)

\* a cascade that asks the breaker before phase 1
CallChecksBreakerFirst(r, d) ==
    /\ pc[r] = "idle"
    /\ r > 1 => pc[r - 1] # "idle"
    /\ LET f == [NoFrame EXCEPT !.task_description = d,
                                !.overall_start = now,
                                !.heuristic_result = HeuristicClassify(d)]
           c == [NoCalls EXCEPT !.heuristic = 1]
           cb == IF enable_circuit_breaker
                 THEN can_attempt(circuit_breaker, now).cb ELSE circuit_breaker
       IN  IF f.heuristic_result.confidence >= HEURISTIC_THRESHOLD
           THEN Finish(r, "waiting", "done", f, f.heuristic_result,
                       record_classification(metrics, "heuristic", 0), cb, c)
           ELSE IF ml_classifier
           THEN Finish(r, "waiting", "await_ml", f, Unbound, metrics,
                       cb, [c EXCEPT !.ml = 1])
           ELSE Phase3(r, "waiting", f, c)

\* classify(request) is called: wait_for starts _classify_internal, which runs
\* phase 1 and goes on to its first await (or to its return).
Call(r, d) ==
    /\ pc[r] = "idle"
    /\ r > 1 => pc[r - 1] # "idle"
    /\ LET f == [NoFrame EXCEPT !.task_description = d,
                                !.overall_start = now,
                                !.heuristic_result = HeuristicClassify(d)]
           c == [NoCalls EXCEPT !.heuristic = 1]
       IN  IF f.heuristic_result.confidence >= HEURISTIC_THRESHOLD
           THEN Finish(r, "waiting", "done", f, f.heuristic_result,
                       record_classification(metrics, "heuristic", 0),
                       circuit_breaker, c)
           ELSE IF ml_classifier
           THEN Finish(r, "waiting", "await_ml", f, Unbound, metrics,
                       circuit_breaker, [c EXCEPT !.ml = 1])
           ELSE Phase3(r, "waiting", f, c)

\* phase 2 with an ML confidence compared by > instead of >=
MLReturnStrict(r, conf) ==
    /\ task[r] = "await_ml"
    /\ LET f == [frame[r] EXCEPT !.ml_result = MLResult(conf)] IN
       IF f.ml_result.confidence > ML_THRESHOLD
       THEN Finish(r, pc[r], "done", f, f.ml_result,
                   record_classification(metrics, "ml", now - f.overall_start),
                   circuit_breaker, calls[r])
       ELSE Phase3(r, pc[r], f, calls[r])

\* await self.ml_classifier.classify(request) returns a result
MLReturn(r, conf) ==
    /\ task[r] = "await_ml"
    /\ LET f == [frame[r] EXCEPT !.ml_result = MLResult(conf)] IN
       IF f.ml_result.confidence >= ML_THRESHOLD
       THEN Finish(r, pc[r], "done", f, f.ml_result,
                   record_classification(metrics, "ml", now - f.overall_start),
                   circuit_breaker, calls[r])
       ELSE Phase3(r, pc[r], f, calls[r])

\* await self.ml_classifier.classify(request) raises: logged, on to phase 3
MLRaise(r) ==
    /\ task[r] = "await_ml"
    /\ Phase3(r, pc[r], [frame[r] EXCEPT !.ml_raised = TRUE], calls[r])

\* await self.llm_classifier.classify(request) returns a result
LLMReturn(r) ==
    /\ task[r] = "await_llm"
    /\ Finish(r, pc[r], "done", frame[r], LLMResult,
              record_classification(metrics, "llm", now - frame[r].overall_start),
              IF enable_circuit_breaker THEN record_success(circuit_breaker)
                                        ELSE circuit_breaker,
              calls[r])

\* await self.llm_classifier.classify(request) raises
LLMRaise(r) ==
    /\ task[r] = "await_llm"
    /\ Fallback(r, pc[r], [frame[r] EXCEPT !.llm_raised = TRUE], calls[r], metrics,
                IF enable_circuit_breaker THEN record_failure(circuit_breaker, now)
                                          ELSE circuit_breaker,
                LLM_FAILED_NOTICE)

\* a timeout handler that counts the timeout and records no classification
TimeoutNoRecord(r) ==
    /\ pc[r] = "waiting"
    /\ task[r] \in {"await_ml", "await_llm"}
    /\ now - frame[r].overall_start >= ClassificationTimeout
    /\ task' = [task EXCEPT ![r] = "cancelled"]
    /\ pc' = [pc EXCEPT ![r] = "returned"]
    /\ frame' = [frame EXCEPT ![r] = Ended([@ EXCEPT !.timed_out = TRUE])]
    /\ calls' = [calls EXCEPT ![r].heuristic = @ + 1]
    /\ result' = [result EXCEPT ![r] =
                    Annotate(HeuristicClassify(frame[r].task_description),
                             TIMEOUT_NOTICE)]
    /\ metrics' = [metrics EXCEPT !.timeouts = @ + 1]
    /\ UNCHANGED << training, now, ml_classifier, enable_circuit_breaker, circuit_breaker >>

\* a deadline that leaves the task running (the tier call survives the
\* cancellation)
TimeoutNoCancel(r) ==
    /\ pc[r] = "waiting"
    /\ task[r] \in {"await_ml", "await_llm"}
    /\ now - frame[r].overall_start >= ClassificationTimeout
    /\ pc' = [pc EXCEPT ![r] = "returned"]
    /\ frame' = [frame EXCEPT ![r].timed_out = TRUE]
    /\ calls' = [calls EXCEPT ![r].heuristic = @ + 1]
    /\ result' = [result EXCEPT ![r] =
                    Annotate(HeuristicClassify(frame[r].task_description),
                             TIMEOUT_NOTICE)]
    /\ metrics' = record_classification(
                    [metrics EXCEPT !.timeouts = @ + 1], "heuristic", 0)
    /\ UNCHANGED << training, now, ml_classifier, enable_circuit_breaker, circuit_breaker,
                    task >>

\* a deadline that cancels the tier calls of every request in flight
TimeoutCancelsAll(r) ==
    /\ pc[r] = "waiting"
    /\ task[r] \in {"await_ml", "await_llm"}
    /\ now - frame[r].overall_start >= ClassificationTimeout
    /\ task' = [q \in Reqs |->
                  IF task[q] \in {"await_ml", "await_llm"} THEN "cancelled"
                                                           ELSE task[q]]
    /\ pc' = [pc EXCEPT ![r] = "returned"]
    /\ frame' = [frame EXCEPT ![r] = Ended([@ EXCEPT !.timed_out = TRUE])]
    /\ calls' = [calls EXCEPT ![r].heuristic = @ + 1]
    /\ result' = [result EXCEPT ![r] =
                    Annotate(HeuristicClassify(frame[r].task_description),
                             TIMEOUT_NOTICE)]
    /\ metrics' = record_classification(
                    [metrics EXCEPT !.timeouts = @ + 1], "heuristic", 0)
    /\ UNCHANGED << training, now, ml_classifier, enable_circuit_breaker, circuit_breaker >>

\* a deadline that reports the abandoned LLM call to the breaker as a failure
TimeoutRecordsFailure(r) ==
    /\ pc[r] = "waiting"
    /\ task[r] \in {"await_ml", "await_llm"}
    /\ now - frame[r].overall_start >= ClassificationTimeout
    /\ task' = [task EXCEPT ![r] = "cancelled"]
    /\ pc' = [pc EXCEPT ![r] = "returned"]
    /\ frame' = [frame EXCEPT ![r] = Ended([@ EXCEPT !.timed_out = TRUE])]
    /\ calls' = [calls EXCEPT ![r].heuristic = @ + 1]
    /\ result' = [result EXCEPT ![r] =
                    Annotate(HeuristicClassify(frame[r].task_description),
                             TIMEOUT_NOTICE)]
    /\ metrics' = record_classification(
                    [metrics EXCEPT !.timeouts = @ + 1], "heuristic", 0)
    /\ circuit_breaker' =
          IF enable_circuit_breaker /\ task[r] = "await_llm"
          THEN record_failure(circuit_breaker, now) ELSE circuit_breaker
    /\ UNCHANGED << training, now, ml_classifier, enable_circuit_breaker >>

\* The deadline of wait_for passes while the task is suspended in a tier call:
\* the task is cancelled (CancelledError is no Exception, so neither except
\* clause of _classify_internal takes it) and classify() handles TimeoutError.
Timeout(r) ==
    /\ pc[r] = "waiting"
    /\ task[r] \in {"await_ml", "await_llm"}
    /\ now - frame[r].overall_start >= ClassificationTimeout
    /\ task' = [task EXCEPT ![r] = "cancelled"]
    /\ pc' = [pc EXCEPT ![r] = "returned"]
    /\ frame' = [frame EXCEPT ![r] = Ended([@ EXCEPT !.timed_out = TRUE])]
    /\ calls' = [calls EXCEPT ![r].heuristic = @ + 1]
    /\ result' = [result EXCEPT ![r] =
                    Annotate(HeuristicClassify(frame[r].task_description),
                             TIMEOUT_NOTICE)]
    /\ metrics' = record_classification(
                    [metrics EXCEPT !.timeouts = @ + 1], "heuristic", 0)
    /\ UNCHANGED << training, now, ml_classifier, enable_circuit_breaker, circuit_breaker >>

\* a reset that zeroes the classification counters and keeps trips and timeouts
reset_metrics_keeps_trips ==
    /\ metrics' = [NewMetrics EXCEPT
                      !.circuit_breaker_trips = metrics.circuit_breaker_trips,
                      !.timeouts = metrics.timeouts]
    /\ UNCHANGED << training, now, ml_classifier, enable_circuit_breaker, circuit_breaker,
                    pc, task, frame, result, calls >>

\* HybridClassifier.reset_metrics()
reset_metrics ==
    /\ metrics' = NewMetrics
    /\ UNCHANGED << training, now, ml_classifier, enable_circuit_breaker, circuit_breaker,
                    pc, task, frame, result, calls >>

\* a reset that closes the breaker and keeps failure_count
reset_circuit_breaker_keeps_count ==
    /\ circuit_breaker' =
          IF enable_circuit_breaker
          THEN [circuit_breaker EXCEPT !.is_open = FALSE]
          ELSE circuit_breaker
    /\ UNCHANGED << training, now, ml_classifier, enable_circuit_breaker, metrics,
                    pc, task, frame, result, calls >>

\* a reset that forgets the time of the last failure as well
reset_circuit_breaker_forgets_failure ==
    /\ circuit_breaker' =
          IF enable_circuit_breaker
          THEN [circuit_breaker EXCEPT !.is_open = FALSE, !.failure_count = 0,
                                       !.last_failure_time = -1]
          ELSE circuit_breaker
    /\ UNCHANGED << training, now, ml_classifier, enable_circuit_breaker, metrics,
                    pc, task, frame, result, calls >>

\* HybridClassifier.reset_circuit_breaker()
reset_circuit_breaker ==
    /\ circuit_breaker' =
          IF enable_circuit_breaker
          THEN [circuit_breaker EXCEPT !.is_open = FALSE, !.failure_count = 0]
          ELSE circuit_breaker
    /\ UNCHANGED << training, now, ml_classifier, enable_circuit_breaker, metrics,
                    pc, task, frame, result, calls >>

\* the clock advances
Tick ==
    /\ now < MaxTime
    /\ now' = now + 1
    /\ UNCHANGED << training, ml_classifier, enable_circuit_breaker, metrics,
                    circuit_breaker, pc, task, frame, result, calls >>

\* HybridClassifier.__init__, with or without an ML tier and a circuit breaker
Init ==
    /\ now = 0
    /\ ml_classifier \in BOOLEAN
    /\ enable_circuit_breaker \in BOOLEAN
    /\ metrics = NewMetrics
    /\ circuit_breaker = NewCircuitBreaker
    /\ pc = [r \in Reqs |-> "idle"]
    /\ task = [r \in Reqs |-> "none"]
    /\ frame = [r \in Reqs |-> NoFrame]
    /\ result = [r \in Reqs |-> Unbound]
    /\ calls = [r \in Reqs |-> NoCalls]
    /\ InitTraining

Next ==
    \/ \E r \in Reqs, d \in Descriptions : Call(r, d)
    \/ \E r \in Reqs, conf \in MLConfidences : MLReturn(r, conf)
    \/ \E r \in Reqs : MLRaise(r)
    \/ \E r \in Reqs : LLMReturn(r)
    \/ \E r \in Reqs : LLMRaise(r)
    \/ \E r \in Reqs : Timeout(r)
    \/ reset_metrics
    \/ reset_circuit_breaker
    \/ Tick

Spec == Init /\ [][Next]_vars

\* ------------------------------------------------------------- CircuitBreaker on its own
\* A CircuitBreaker whose methods are called directly, in any order, as the
\* unit tests do and as the requests of a HybridClassifier do between them
\* (each method runs without an await, so the calls of concurrent requests
\* reach the breaker one after another, in some order).
InitCB ==
    /\ now = 0
    /\ ml_classifier = FALSE
    /\ enable_circuit_breaker = TRUE
    /\ metrics = NewMetrics
    /\ circuit_breaker \in
          { [NewCircuitBreaker EXCEPT !.failure_threshold = T] : T \in 1..MaxThreshold }
    /\ pc = [r \in Reqs |-> "idle"]
    /\ task = [r \in Reqs |-> "none"]
    /\ frame = [r \in Reqs |-> NoFrame]
    /\ result = [r \in Reqs |-> Unbound]
    /\ calls = [r \in Reqs |-> NoCalls]
    /\ InitTraining

\* circuit_breaker.record_success()
CBRecordSuccess ==
    /\ circuit_breaker' = record_success(circuit_breaker)
    /\ UNCHANGED << training, now, ml_classifier, enable_circuit_breaker, metrics,
                    pc, task, frame, result, calls >>

\* circuit_breaker.record_failure()
CBRecordFailure ==
    /\ circuit_breaker.failure_count < MaxFailures
    /\ circuit_breaker' = record_failure(circuit_breaker, now)
    /\ UNCHANGED << training, now, ml_classifier, enable_circuit_breaker, metrics,
                    pc, task, frame, result, calls >>

\* circuit_breaker.can_attempt()
CBCanAttempt ==
    /\ circuit_breaker' = can_attempt(circuit_breaker, now).cb
    /\ UNCHANGED << training, now, ml_classifier, enable_circuit_breaker, metrics,
                    pc, task, frame, result, calls >>

NextCB ==
    \/ CBRecordSuccess
    \/ CBRecordFailure
    \/ CBCanAttempt
    \/ reset_circuit_breaker
    \/ Tick

SpecCB == InitCB /\ [][NextCB]_vars

\* ------------------------------------------------------------- recovery probe
\* A classifier whose breaker has just opened: FailureThreshold LLM attempts of
\* earlier requests failed at time 0 (and reset_metrics() was called since).
\* From there requests arrive as in Spec; nobody resets the breaker.
RECURSIVE AfterFailures(_)
AfterFailures(n) ==
    IF n = 0 THEN NewCircuitBreaker
             ELSE record_failure(AfterFailures(n - 1), 0)

InitOpen ==
    /\ now = 0
    /\ ml_classifier \in BOOLEAN
    /\ enable_circuit_breaker = TRUE
    /\ metrics = NewMetrics
    /\ circuit_breaker = AfterFailures(FailureThreshold)
    /\ pc = [r \in Reqs |-> "idle"]
    /\ task = [r \in Reqs |-> "none"]
    /\ frame = [r \in Reqs |-> NoFrame]
    /\ result = [r \in Reqs |-> Unbound]
    /\ calls = [r \in Reqs |-> NoCalls]
    /\ InitTraining

NextProbe ==
    \/ \E r \in Reqs, d \in Descriptions : Call(r, d)
    \/ \E r \in Reqs, conf \in MLConfidences : MLReturn(r, conf)
    \/ \E r \in Reqs : MLRaise(r)
    \/ \E r \in Reqs : LLMReturn(r)
    \/ \E r \in Reqs : LLMRaise(r)
    \/ \E r \in Reqs : Timeout(r)
    \/ reset_metrics
    \/ Tick

SpecProbe == InitOpen /\ [][NextProbe]_vars

\* ------------------------------------------------------------- an LLM tier that always raises
\* test_circuit_breaker_prevents_llm_calls: no ML tier, a breaker of threshold
\* T, an LLM classifier that raises at once, and classify() awaited one call
\* after the other, all inside the recovery window of the last failure.
InitFailing ==
    /\ now = 0
    /\ ml_classifier = FALSE
    /\ enable_circuit_breaker = TRUE
    /\ metrics = NewMetrics
    /\ circuit_breaker \in
          { [NewCircuitBreaker EXCEPT !.failure_threshold = T] : T \in 1..MaxThreshold }
    /\ pc = [r \in Reqs |-> "idle"]
    /\ task = [r \in Reqs |-> "none"]
    /\ frame = [r \in Reqs |-> NoFrame]
    /\ result = [r \in Reqs |-> Unbound]
    /\ calls = [r \in Reqs |-> NoCalls]
    /\ InitTraining

\* await classifier.classify(request), after the previous call has returned
CallInTurn(r, d) ==
    /\ \A q \in Reqs : q < r => pc[q] \in {"returned", "raised"}
    /\ Call(r, d)

\* the clock advances, short of the end of the recovery window and of the
\* deadline of a call in progress
TickInWindow ==
    /\ circuit_breaker.last_failure_time # -1 =>
          now + 1 - circuit_breaker.last_failure_time < RecoveryTimeout
    /\ \A r \in Reqs : task[r] \in {"await_ml", "await_llm"} =>
          now + 1 - frame[r].overall_start < ClassificationTimeout
    /\ Tick

NextFailing ==
    \/ \E r \in Reqs, d \in Descriptions : CallInTurn(r, d)
    \/ \E r \in Reqs : LLMRaise(r)
    \/ reset_metrics
    \/ TickInWindow

SpecFailing == InitFailing /\ [][NextFailing]_vars

\* ------------------------------------------------------------- ClassificationMetrics on its own
\* A ClassificationMetrics whose record_classification is called directly with
\* any label, as test_record_classification does, and whose trip and timeout
\* counters are incremented as the cascade increments them.
Labels == {"heuristic", "ml", "llm", "unknown"}
Latencies == 0..MaxLatency

InitMetrics ==
    /\ now = 0
    /\ ml_classifier = FALSE
    /\ enable_circuit_breaker = TRUE
    /\ metrics = NewMetrics
    /\ circuit_breaker = NewCircuitBreaker
    /\ pc = [r \in Reqs |-> "idle"]
    /\ task = [r \in Reqs |-> "none"]
    /\ frame = [r \in Reqs |-> NoFrame]
    /\ result = [r \in Reqs |-> Unbound]
    /\ calls = [r \in Reqs |-> NoCalls]
    /\ InitTraining

\* metrics.record_classification(classifier_used, latency_ms)
MRecord(classifier_used, latency_ms) ==
    /\ metrics.total_classifications < MaxTotal
    /\ metrics' = record_classification(metrics, classifier_used, latency_ms)
    /\ UNCHANGED << training, now, ml_classifier, enable_circuit_breaker, circuit_breaker,
                    pc, task, frame, result, calls >>

\* self.metrics.circuit_breaker_trips += 1
MTrip ==
    /\ metrics.circuit_breaker_trips < MaxEvents
    /\ metrics' = [metrics EXCEPT !.circuit_breaker_trips = @ + 1]
    /\ UNCHANGED << training, now, ml_classifier, enable_circuit_breaker, circuit_breaker,
                    pc, task, frame, result, calls >>

\* self.metrics.timeouts += 1
MTimeout ==
    /\ metrics.timeouts < MaxEvents
    /\ metrics' = [metrics EXCEPT !.timeouts = @ + 1]
    /\ UNCHANGED << training, now, ml_classifier, enable_circuit_breaker, circuit_breaker,
                    pc, task, frame, result, calls >>

NextMetrics ==
    \/ \E l \in Labels, lat \in Latencies : MRecord(l, lat)
    \/ MTrip
    \/ MTimeout
    \/ reset_metrics

SpecMetrics == InitMetrics /\ [][NextMetrics]_vars

\* the ML call of a request with locals f has finished: it returned or raised
MLFinished(f) == f.ml_raised \/ f.ml_result # Unbound

\* ------------------------------------------------------------- tiers with a fixed outcome
\* Tiers whose outcome is a function of the request: the ML and the LLM call of
\* a request end as those of every other request with the same description
\* ended. The classifier is taken new, or with the breaker left open by
\* FailureThreshold earlier calls, at time 0, of a request whose LLM call raises.
SameRequest(r) ==
    { q \in Reqs \ {r} : pc[q] # "idle"
                            /\ frame[q].task_description = frame[r].task_description }

LLMReturned(q) == result[q] = LLMResult

InitFixed ==
    /\ now = 0
    /\ ml_classifier \in BOOLEAN
    /\ enable_circuit_breaker \in BOOLEAN
    /\ metrics = NewMetrics
    /\ circuit_breaker \in
          IF enable_circuit_breaker
          THEN {NewCircuitBreaker, AfterFailures(FailureThreshold)}
          ELSE {NewCircuitBreaker}
    /\ pc = [r \in Reqs |-> "idle"]
    /\ task = [r \in Reqs |-> "none"]
    /\ frame = [r \in Reqs |-> NoFrame]
    /\ result = [r \in Reqs |-> Unbound]
    /\ calls = [r \in Reqs |-> NoCalls]
    /\ InitTraining

FixedMLReturn(r, conf) ==
    /\ \A q \in SameRequest(r) :
          MLFinished(frame[q]) => frame[q].ml_result = MLResult(conf)
    /\ MLReturn(r, conf)

FixedMLRaise(r) ==
    /\ \A q \in SameRequest(r) : MLFinished(frame[q]) => frame[q].ml_raised
    /\ MLRaise(r)

FixedLLMReturn(r) ==
    /\ \A q \in SameRequest(r) : ~frame[q].llm_raised
    /\ LLMReturn(r)

FixedLLMRaise(r) ==
    /\ \A q \in SameRequest(r) : ~LLMReturned(q)
    /\ LLMRaise(r)

NextFixed ==
    \/ \E r \in Reqs, d \in Descriptions : Call(r, d)
    \/ \E r \in Reqs, conf \in MLConfidences : FixedMLReturn(r, conf)
    \/ \E r \in Reqs : FixedMLRaise(r)
    \/ \E r \in Reqs : FixedLLMReturn(r)
    \/ \E r \in Reqs : FixedLLMRaise(r)
    \/ \E r \in Reqs : Timeout(r)
    \/ reset_metrics
    \/ reset_circuit_breaker
    \/ Tick

SpecFixed == InitFixed /\ [][NextFixed]_vars

\* ------------------------------------------------------------- time goes on
\* The cascade with the clock going on and the timer of wait_for firing once its
\* deadline is reached; a tier call may never complete. Calls start early
\* enough for their deadline to lie within the time covered.
CallInTime(r, d) ==
    /\ now + ClassificationTimeout <= MaxTime
    /\ Call(r, d)

NextLive ==
    \/ \E r \in Reqs, d \in Descriptions : CallInTime(r, d)
    \/ \E r \in Reqs, conf \in MLConfidences : MLReturn(r, conf)
    \/ \E r \in Reqs : MLRaise(r)
    \/ \E r \in Reqs : LLMReturn(r)
    \/ \E r \in Reqs : LLMRaise(r)
    \/ \E r \in Reqs : Timeout(r)
    \/ reset_metrics
    \/ reset_circuit_breaker
    \/ Tick

Fairness ==
    /\ WF_vars(Tick)
    /\ \A r \in Reqs : WF_vars(Timeout(r))

SpecLive == Init /\ [][NextLive]_vars /\ Fairness

\* ------------------------------------------------------------- save_model_version
\* HybridClassifier.__init__ with nothing asked of the classifier: the
\* classifier while the training side is looked at.
IdleClassifier ==
    /\ now = 0
    /\ ml_classifier = FALSE
    /\ enable_circuit_breaker = TRUE
    /\ metrics = NewMetrics
    /\ circuit_breaker = NewCircuitBreaker
    /\ pc = [r \in Reqs |-> "idle"]
    /\ task = [r \in Reqs |-> "none"]
    /\ frame = [r \in Reqs |-> NoFrame]
    /\ result = [r \in Reqs |-> Unbound]
    /\ calls = [r \in Reqs |-> NoCalls]

\* INSERT INTO model_versions (version, ..., is_active) VALUES (v, ..., a):
\* the table afterwards, and whether the statement raised (version VARCHAR(50)
\* NOT NULL UNIQUE: a stored version cannot be inserted again)
INSERT(mv, v, a) ==
    IF mv[v] # "absent"
    THEN [raised |-> TRUE, model_versions |-> mv]
    ELSE [raised |-> FALSE,
          model_versions |-> [mv EXCEPT ![v] = IF a THEN "active" ELSE "inactive"]]

\* UPDATE model_versions SET is_active = FALSE WHERE version != v
UPDATE(mv, v) ==
    [w \in Versions |-> IF w # v /\ mv[w] = "active" THEN "inactive" ELSE mv[w]]

\* save_model_version(version_data) up to its first awaited statement; without
\* a pool it logs a warning and returns.
SaveModelVersion(s, v, a) ==
    /\ save[s].pc = "idle"
    /\ save' = [save EXCEPT ![s] = [pc |-> IF pool THEN "insert" ELSE "skipped",
                                    version |-> v, is_active |-> a]]
    /\ UNCHANGED << cascade, pool, model_versions, training_samples,
                    classification_feedback, min_samples, response >>

\* await conn.execute(INSERT ...): an exception is logged and the call returns;
\* a version that is not to be active is saved by the INSERT alone.
Insert(s) ==
    /\ save[s].pc = "insert"
    /\ LET done == INSERT(model_versions, save[s].version, save[s].is_active)
       IN  /\ model_versions' = done.model_versions
           /\ save' = [save EXCEPT ![s].pc =
                          IF done.raised THEN "error"
                          ELSE IF save[s].is_active THEN "update" ELSE "saved"]
    /\ UNCHANGED << cascade, pool, training_samples, classification_feedback,
                    min_samples, response >>

\* if version_data.get('is_active', False): await conn.execute(UPDATE ...)
Update(s) ==
    /\ save[s].pc = "update"
    /\ model_versions' = UPDATE(model_versions, save[s].version)
    /\ save' = [save EXCEPT ![s].pc = "saved"]
    /\ UNCHANGED << cascade, pool, training_samples, classification_feedback,
                    min_samples, response >>

\* the repository, with or without a database, before any save
InitVersions ==
    /\ IdleClassifier
    /\ pool \in BOOLEAN
    /\ model_versions = NoVersions
    /\ save = [s \in Savers |-> NoSave]
    /\ training_samples = 0
    /\ classification_feedback = 0
    /\ min_samples = MIN_SAMPLES
    /\ response = "none"

NextVersions ==
    \/ \E s \in Savers, v \in Versions, a \in BOOLEAN : SaveModelVersion(s, v, a)
    \/ \E s \in Savers : Insert(s)
    \/ \E s \in Savers : Update(s)

\* Concurrent calls of save_model_version() on one repository.
SpecVersions == InitVersions /\ [][NextVersions]_vars

\* ------------------------------------------------------------- retrain_model
\* LIMIT $1 applied to a table of n usable rows
Limit(n, limit) == IF n < limit THEN n ELSE limit

\* len(await repo.get_training_samples(limit)): without a database the empty
\* list; otherwise the rows WHERE task_description IS NOT NULL AND
\* LENGTH(task_description) > 10 of each table, each query with LIMIT limit // 2
get_training_samples(connected, training_rows, feedback_rows, limit) ==
    IF ~connected
    THEN 0
    ELSE Limit(training_rows, limit \div 2) + Limit(feedback_rows, limit \div 2)

\* retrain_model from the request to its answer "insufficient_data" or to the
\* start of the training
Retrain ==
    /\ response = "none"
    /\ LET n == get_training_samples(pool, training_samples,
                                     classification_feedback, min_samples)
       IN  response' = IF n < min_samples THEN "insufficient_data" ELSE "training"
    /\ UNCHANGED << cascade, pool, model_versions, save, training_samples,
                    classification_feedback, min_samples >>

\* retrain_model, steps 1 to 9 and the answer: the model is trained, saved as
\* version v (request.model_version or a time stamp) with is_active = True, and
\* the request answered "completed". The request is the only client of the
\* database here, so nothing runs between the two statements of the save.
TrainReturn(v) ==
    /\ response = "training"
    /\ LET done == INSERT(model_versions, v, TRUE)
       IN  model_versions' = IF done.raised
                             THEN model_versions
                             ELSE UPDATE(done.model_versions, v)
    /\ response' = "completed"
    /\ UNCHANGED << cascade, pool, save, training_samples,
                    classification_feedback, min_samples >>

\* retrain_model, an exception in steps 1 to 8: HTTP 500
TrainRaise ==
    /\ response = "training"
    /\ response' = "failed"
    /\ UNCHANGED << cascade, pool, model_versions, save, training_samples,
                    classification_feedback, min_samples >>

\* a retraining request with min_samples in the accepted range, against tables
\* holding any number of usable rows
InitRetrain ==
    /\ IdleClassifier
    /\ pool \in BOOLEAN
    /\ model_versions = NoVersions
    /\ save = [s \in Savers |-> NoSave]
    /\ training_samples \in 0..MaxRows
    /\ classification_feedback \in 0..MaxRows
    /\ min_samples \in MIN_SAMPLES..MaxMinSamples
    /\ response = "none"

NextRetrain ==
    \/ Retrain
    \/ \E v \in Versions : TrainReturn(v)
    \/ TrainRaise

SpecRetrain == InitRetrain /\ [][NextRetrain]_vars

TypeOK ==
    /\ now \in Time
    /\ pc \in [Reqs -> {"idle", "waiting", "returned", "raised"}]
    /\ task \in [Reqs -> {"none", "await_ml", "await_llm", "done", "raised", "cancelled"}]
    /\ circuit_breaker.failure_count \in Nat
    /\ metrics.total_classifications \in 0..NReq


\* ------------------------------------------------------------- properties
Terminal == {"returned", "raised"}
Awaiting == {"await_ml", "await_llm"}

\* the per-tier usage counter of tier t
Used(m, t) ==
    CASE t = "heuristic" -> m.heuristic_used
      [] t = "ml"        -> m.ml_used
      [] t = "llm"       -> m.llm_used

\* this step records exactly one classification, under tier t
RecordsOneUnder(t) ==
    /\ metrics'.total_classifications = metrics.total_classifications + 1
    /\ \A u \in {"heuristic", "ml", "llm"} :
          Used(metrics', u) = Used(metrics, u) + (IF u = t THEN 1 ELSE 0)

\* the best available fallback: the ML result if one was computed for the
\* request, else the heuristic result
BestFallback(f) ==
    IF f.ml_result # Unbound THEN f.ml_result ELSE f.heuristic_result

\* the call of request r ends in this step
Ends(r) == pc[r] \notin Terminal /\ pc'[r] \in Terminal

\* classify() of request r returns a result in this step
Returns(r) == pc[r] \notin Terminal /\ pc'[r] = "returned"

\* the breaker denies the LLM attempt of request r in this step
Denies(r) == ~frame[r].denied /\ frame'[r].denied

\* the LLM attempt of request r raises in this step
LLMFails(r) == ~frame[r].llm_raised /\ frame'[r].llm_raised

\* the deadline of request r fires in this step
DeadlineFires(r) == ~frame[r].timed_out /\ frame'[r].timed_out

\* C1: classify() never propagates an exception caused by the ML or LLM tier:
\* no call ends by raising.
C1_NeverRaises ==
    \A r \in Reqs : pc[r] # "raised"

\* C2: every classify() call that ends records exactly one classification:
\* total_classifications grows by exactly 1 in the step that ends the call.
C2_ExactlyOneRecord ==
    [][\A r \in Reqs :
          Ends(r) => metrics'.total_classifications
                        = metrics.total_classifications + 1]_vars

\* C3: when classify() returns a result, the per-tier counter incremented is the
\* one named by the label of the returned result (and no other), and the
\* returned result is, up to the fallback notice, the output of the tier with
\* that label for this request.
C3_CounterMatchesReturnedTier ==
    [][\A r \in Reqs :
          Returns(r) =>
            LET res == result'[r]
                t == res.classifier_used
                body == IF Head(res.reasoning) \in Notices
                        THEN [res EXCEPT !.reasoning = Tail(@)] ELSE res
            IN  /\ t \in {"heuristic", "ml", "llm"}
                /\ RecordsOneUnder(t)
                /\ t = "heuristic" =>
                      body = HeuristicClassify(frame'[r].task_description)
                /\ t = "ml" => body = frame'[r].ml_result
                /\ t = "llm" => body = LLMResult /\ calls'[r].llm = 1]_vars

\* C3 witness: a call returned the ML result as the fallback of a failed LLM
\* attempt, and it was counted under "ml".
C3_Witness ==
    \E r \in Reqs :
        /\ pc[r] = "returned" /\ frame[r].llm_raised
        /\ result[r].classifier_used = "ml"
        /\ metrics.ml_used >= 1 /\ metrics.llm_used = 0

C5_AbandonedCallNeverRecords ==
    [][\A r \in Reqs :
          frame[r].timed_out =>
            /\ task'[r] = task[r] /\ pc'[r] = pc[r]
            /\ calls'[r] = calls[r] /\ result'[r] = result[r]
            /\ metrics' # metrics =>
                  \/ metrics' = NewMetrics
                  \/ \E r2 \in Reqs \ {r} : task'[r2] # task[r2]]_vars

\* C5 witness: a request has timed out in its LLM call and the metrics hold
\* its one record, under "heuristic", after the clock has moved on.
C5_Witness ==
    \E r \in Reqs :
        /\ frame[r].timed_out /\ calls[r].llm = 1 /\ task[r] = "cancelled"
        /\ now = MaxTime
        /\ metrics.total_classifications = 1 /\ metrics.heuristic_used = 1
        /\ metrics.timeouts = 1

\* C6: when can_attempt() denies the LLM attempt of a request, the LLM is not
\* invoked, circuit_breaker_trips grows by 1, and the ML result if one was
\* computed, else the heuristic result, is returned with a circuit-breaker
\* notice and recorded under its tier.
C6_CircuitOpenFallback ==
    [][\A r \in Reqs :
          Denies(r) =>
            /\ calls'[r].llm = 0
            /\ metrics'.circuit_breaker_trips = metrics.circuit_breaker_trips + 1
            /\ pc'[r] = "returned"
            /\ result'[r] = Annotate(BestFallback(frame'[r]), CIRCUIT_NOTICE)
            /\ RecordsOneUnder(BestFallback(frame'[r]).classifier_used)]_vars

\* C7: when the LLM attempt of a request raises, record_failure() is applied
\* once, and the ML result if one was computed, else the heuristic result, is
\* returned with a failure notice and recorded under its tier.
C7_LLMFailureFallback ==
    [][\A r \in Reqs :
          LLMFails(r) =>
            /\ enable_circuit_breaker =>
                  circuit_breaker' = record_failure(circuit_breaker, now)
            /\ pc'[r] = "returned"
            /\ result'[r] = Annotate(BestFallback(frame'[r]), LLM_FAILED_NOTICE)
            /\ RecordsOneUnder(BestFallback(frame'[r]).classifier_used)]_vars

\* C8: when the ML call raised and the LLM attempt raises too, classify()
\* returns the heuristic result computed at the start of the request (the
\* heuristic tier ran once) and records one "heuristic" classification.
C8_BothTiersFail ==
    [][\A r \in Reqs :
          (frame[r].ml_raised /\ LLMFails(r)) =>
            /\ pc'[r] = "returned"
            /\ result'[r] = Annotate(frame[r].heuristic_result, LLM_FAILED_NOTICE)
            /\ result'[r].classifier_used = "heuristic"
            /\ calls'[r].heuristic = 1
            /\ RecordsOneUnder("heuristic")]_vars

\* C9: when the ML call raised and the breaker denies the LLM attempt,
\* classify() returns the heuristic result with a circuit-breaker notice, and
\* the metrics change by circuit_breaker_trips +1, total_classifications +1
\* and heuristic_used +1.
C9_MLFailsCircuitOpen ==
    [][\A r \in Reqs :
          (frame'[r].ml_raised /\ Denies(r)) =>
            /\ pc'[r] = "returned"
            /\ result'[r] = Annotate(frame'[r].heuristic_result, CIRCUIT_NOTICE)
            /\ metrics'.circuit_breaker_trips = metrics.circuit_breaker_trips + 1
            /\ RecordsOneUnder("heuristic")]_vars

\* C10: when the LLM attempt of a request succeeds, the breaker is left with
\* failure_count = 0 and is_open = FALSE, llm_used and total_classifications
\* each grow by 1, and the LLM result is returned with tier "llm".
C10_LLMSuccess ==
    [][\A r \in Reqs :
          (pc[r] = "waiting" /\ task[r] = "await_llm" /\ task'[r] = "done"
             /\ ~frame'[r].llm_raised) =>
            /\ enable_circuit_breaker =>
                  /\ circuit_breaker'.failure_count = 0
                  /\ ~circuit_breaker'.is_open
                  /\ circuit_breaker'.last_failure_time
                        = circuit_breaker.last_failure_time
            /\ RecordsOneUnder("llm")
            /\ pc'[r] = "returned"
            /\ result'[r] = LLMResult
            /\ result'[r].classifier_used = "llm"]_vars

\* C10 witness: an LLM attempt succeeded on a breaker that another request's
\* failure had touched, and the breaker is closed with no failures counted.
C10_Witness ==
    \E r1, r2 \in Reqs :
        /\ enable_circuit_breaker
        /\ frame[r1].llm_raised
        /\ pc[r2] = "returned" /\ result[r2].classifier_used = "llm"
        /\ circuit_breaker.last_failure_time # -1
        /\ circuit_breaker.failure_count = 0 /\ ~circuit_breaker.is_open
        /\ metrics.llm_used = 1


\* the result without its fallback notice
Body(res) ==
    IF res.reasoning # << >> /\ Head(res.reasoning) \in Notices
    THEN [res EXCEPT !.reasoning = Tail(@)] ELSE res

\* classify() of request r is called in this step
Starts(r) == pc[r] = "idle" /\ pc'[r] # "idle"

\* the LLM attempt of request r succeeds in this step
LLMSucceeds(r) ==
    task[r] = "await_llm" /\ task'[r] = "done" /\ ~frame'[r].llm_raised

\* C11: a request whose heuristic confidence is >= 0.85 (0.85 included) gets
\* the heuristic result, unmodified, with tier "heuristic"; heuristic_used
\* grows by exactly 1, ml_used and llm_used are unchanged, and neither the ML
\* nor the LLM classifier is invoked.
C11_HeuristicFastPath ==
    [][\A r \in Reqs :
          frame'[r].heuristic_result.confidence >= HEURISTIC_THRESHOLD =>
            /\ pc'[r] = "returned"
            /\ result'[r] = HeuristicClassify(frame'[r].task_description)
            /\ result'[r].classifier_used = "heuristic"
            /\ calls'[r] = [heuristic |-> 1, ml |-> 0, llm |-> 0]
            /\ Starts(r) => RecordsOneUnder("heuristic")]_vars

\* C11 witness: a request with heuristic confidence exactly 0.85 has returned
\* on the fast path, next to one with a higher confidence.
C11_Witness ==
    \E r1, r2 \in Reqs :
        /\ pc[r1] = "returned" /\ result[r1].confidence = HEURISTIC_THRESHOLD
        /\ result[r1].classifier_used = "heuristic" /\ calls[r1].ml = 0
        /\ pc[r2] = "returned" /\ result[r2].confidence > HEURISTIC_THRESHOLD
        /\ metrics.heuristic_used = 2

\* C12: when the ML call of a request returns with confidence >= 0.70 (0.70
\* included), classify() returns the ML result with tier "ml", ml_used grows by
\* exactly 1 and the LLM is not invoked; with confidence below 0.70 the request
\* goes on to the LLM stage (the breaker check, then the LLM call or the
\* circuit-open fallback) and the ML result is the fallback that stage returns.
C12_MLThresholdPath ==
    [][\A r \in Reqs :
          /\ (task[r] = "await_ml" /\ frame'[r].ml_result # Unbound) =>
                IF frame'[r].ml_result.confidence >= ML_THRESHOLD
                THEN /\ pc'[r] = "returned"
                     /\ result'[r] = frame'[r].ml_result
                     /\ result'[r].classifier_used = "ml"
                     /\ calls'[r].llm = 0
                     /\ RecordsOneUnder("ml")
                ELSE \/ /\ task'[r] = "await_llm" /\ calls'[r].llm = 1
                        /\ pc'[r] = "waiting" /\ metrics' = metrics
                     \/ /\ frame'[r].denied /\ calls'[r].llm = 0
                        /\ pc'[r] = "returned"
                        /\ result'[r] = Annotate(frame'[r].ml_result, CIRCUIT_NOTICE)
          /\ (LLMFails(r) /\ frame'[r].ml_result # Unbound) =>
                /\ pc'[r] = "returned"
                /\ result'[r] = Annotate(frame'[r].ml_result, LLM_FAILED_NOTICE)]_vars

\* C12 witness: one request returned an ML result of confidence exactly 0.70,
\* another is in its LLM call with an ML result of confidence 0.69 retained.
C12_Witness ==
    \E r1, r2 \in Reqs :
        /\ pc[r1] = "returned" /\ result[r1] = MLResult(ML_THRESHOLD)
        /\ task[r2] = "await_llm" /\ frame[r2].ml_result = MLResult(ML_THRESHOLD - 1)
        /\ metrics.ml_used = 1

\* C13: with no ML tier, a request of heuristic confidence below 0.85 goes
\* straight to the breaker check: the LLM is called if and only if the breaker
\* permits; an LLM success returns tier "llm" with llm_used +1; ml_used never
\* changes and the ML tier is never invoked; every fallback is the heuristic
\* result, recorded under "heuristic".
C13_NoMLTier ==
    [][~ml_classifier =>
        \A r \in Reqs :
          /\ calls'[r].ml = 0
          /\ metrics'.ml_used = metrics.ml_used
          /\ pc'[r] # "raised"
          /\ (Starts(r) /\ frame'[r].heuristic_result.confidence < HEURISTIC_THRESHOLD) =>
                IF enable_circuit_breaker => can_attempt(circuit_breaker, now).ok
                THEN task'[r] = "await_llm" /\ calls'[r].llm = 1
                ELSE frame'[r].denied /\ calls'[r].llm = 0
          /\ LLMSucceeds(r) =>
                /\ result'[r] = LLMResult /\ result'[r].classifier_used = "llm"
                /\ RecordsOneUnder("llm")
          /\ (Returns(r) /\ ~LLMSucceeds(r)) =>
                /\ Body(result'[r]) = HeuristicClassify(frame'[r].task_description)
                /\ RecordsOneUnder("heuristic")]_vars

\* C13 witness: without an ML tier, one request got the LLM result and another
\* the heuristic fallback of a failed LLM attempt.
C13_Witness ==
    \E r1, r2 \in Reqs :
        /\ ~ml_classifier
        /\ pc[r1] = "returned" /\ result[r1] = LLMResult
        /\ pc[r2] = "returned" /\ frame[r2].llm_raised
        /\ result[r2].classifier_used = "heuristic"
        /\ metrics.llm_used = 1 /\ metrics.heuristic_used = 1 /\ metrics.ml_used = 0

\* C14: in every state reached by record_success, record_failure, can_attempt
\* and the manual reset, called in any order, the breaker is open if and only
\* if failure_count >= failure_threshold.
C14_OpenIffThresholdReached ==
    circuit_breaker.is_open
        <=> circuit_breaker.failure_count >= circuit_breaker.failure_threshold

\* C14 witness: a breaker with threshold 2 is open with a third failure counted
\* (a failure recorded while it was already open), after having been closed
\* again at least once (the clock has moved past a recovery window).
C14_Witness ==
    /\ circuit_breaker.failure_threshold = 2
    /\ circuit_breaker.is_open
    /\ circuit_breaker.failure_count = 3
    /\ circuit_breaker.last_failure_time >= RecoveryTimeout

\* the breaker is open and recovery_timeout has not elapsed since the last
\* recorded failure
InWindow(cb, t) ==
    cb.is_open /\ cb.last_failure_time # -1
               /\ t - cb.last_failure_time < RecoveryTimeout

\* the breaker is open and recovery_timeout has elapsed since the last failure
Elapsed(cb, t) ==
    cb.is_open /\ cb.last_failure_time # -1
               /\ t - cb.last_failure_time >= RecoveryTimeout

\* request r starts its LLM call in this step
StartsLLM(r) == task[r] # "await_llm" /\ task'[r] = "await_llm"

\* C15 as stated: while the breaker is open and inside the window, every step
\* other than a manual reset (the completion of an LLM attempt admitted earlier
\* included) leaves can_attempt() false for as long as the window lasts, and
\* starts no LLM call; once the window has elapsed can_attempt() is true.
C15_Original ==
    [][/\ (enable_circuit_breaker /\ InWindow(circuit_breaker, now)
              /\ ~reset_circuit_breaker
              /\ now' - circuit_breaker'.last_failure_time < RecoveryTimeout) =>
            /\ ~can_attempt(circuit_breaker', now').ok
            /\ \A r \in Reqs : ~StartsLLM(r)
       /\ Elapsed(circuit_breaker', now') => can_attempt(circuit_breaker', now').ok]_vars

\* C15 (amended): the same, unless a manual reset or the recorded success of an
\* LLM attempt admitted before the breaker opened intervenes; a failure of
\* such an attempt keeps the breaker open and restarts the window.
C15_OpenWindowDenies ==
    [][/\ (enable_circuit_breaker /\ InWindow(circuit_breaker, now)
              /\ ~reset_circuit_breaker
              /\ (\A r \in Reqs : ~LLMSucceeds(r))
              /\ now' - circuit_breaker'.last_failure_time < RecoveryTimeout) =>
            /\ ~can_attempt(circuit_breaker', now').ok
            /\ InWindow(circuit_breaker', now')
            /\ \A r \in Reqs : ~StartsLLM(r)
       /\ (enable_circuit_breaker /\ InWindow(circuit_breaker, now)) =>
            \A r \in Reqs :
               /\ ~StartsLLM(r)
               /\ LLMFails(r) => InWindow(circuit_breaker', now')
                                   /\ circuit_breaker'.last_failure_time = now
       /\ Elapsed(circuit_breaker', now') => can_attempt(circuit_breaker', now').ok]_vars

\* C15 witness: two LLM attempts were admitted while the breaker was closed;
\* the first failure opened it, the second failed after that, and inside the
\* window can_attempt() is false.
C15_Witness ==
    /\ enable_circuit_breaker
    /\ \A r \in Reqs : frame[r].llm_raised /\ calls[r].llm = 1
    /\ circuit_breaker.failure_count = 2
    /\ InWindow(circuit_breaker, now)
    /\ ~can_attempt(circuit_breaker, now).ok

\* C16: can_attempt() on an open breaker whose recovery window has elapsed
\* returns true and leaves the breaker closed with failure_count = 0; the
\* breaker opens only on the failure that brings failure_count from
\* failure_threshold - 1 to failure_threshold, so after a recovery it takes
\* failure_threshold failures with no success in between, and one failure does
\* not reopen it when failure_threshold > 1.
C16_RecoveryZeroesCount ==
    [][/\ (CBCanAttempt /\ Elapsed(circuit_breaker, now)) =>
            /\ can_attempt(circuit_breaker, now).ok
            /\ ~circuit_breaker'.is_open
            /\ circuit_breaker'.failure_count = 0
       /\ (~circuit_breaker.is_open /\ circuit_breaker'.is_open) =>
            /\ circuit_breaker'.failure_count = circuit_breaker.failure_count + 1
            /\ circuit_breaker'.failure_count = circuit_breaker.failure_threshold
       /\ (CBRecordFailure /\ circuit_breaker.failure_count = 0
               /\ circuit_breaker.failure_threshold > 1) =>
            ~circuit_breaker'.is_open]_vars

\* C16 witness: with failure_threshold 2, a failure recorded after the end of
\* a recovery window is the only one counted, and the breaker is closed.
C16_Witness ==
    /\ circuit_breaker.failure_threshold = 2
    /\ ~circuit_breaker.is_open
    /\ circuit_breaker.failure_count = 1
    /\ circuit_breaker.last_failure_time = now
    /\ now >= RecoveryTimeout

\* C18: reset_circuit_breaker() leaves is_open = false and failure_count = 0
\* whatever the state and the time since the last failure, and the
\* can_attempt() call that follows returns true and changes nothing.
C18_ManualReset ==
    [][(enable_circuit_breaker /\ reset_circuit_breaker) =>
          /\ ~circuit_breaker'.is_open
          /\ circuit_breaker'.failure_count = 0
          /\ circuit_breaker'.last_failure_time = circuit_breaker.last_failure_time
          /\ can_attempt(circuit_breaker', now').ok
          /\ can_attempt(circuit_breaker', now').cb = circuit_breaker']_vars

\* C18 witness: a breaker opened by a failed LLM attempt is closed inside its
\* recovery window with no LLM success recorded, which only the reset does.
C18_Witness ==
    /\ enable_circuit_breaker
    /\ \E r \in Reqs : frame[r].llm_raised
    /\ \A r \in Reqs : result[r] # LLMResult /\ task[r] # "await_llm"
    /\ ~circuit_breaker.is_open
    /\ circuit_breaker.failure_count = 0
    /\ circuit_breaker.last_failure_time # -1
    /\ now - circuit_breaker.last_failure_time < RecoveryTimeout

\* C17: starting from an open breaker and with no manual reset, at most one
\* LLM attempt is in progress at any time: after the recovery window only one
\* probe is admitted until its outcome has been recorded with the breaker.
C17_SingleProbe ==
    enable_circuit_breaker =>
        Cardinality({ r \in Reqs : task[r] = "await_llm" }) <= 1

\* the number of requests before r whose heuristic confidence was below 0.85
LowBefore(r) ==
    Cardinality({ q \in Reqs : q < r /\ frame[q].heuristic_result # Unbound
                     /\ frame[q].heuristic_result.confidence < HEURISTIC_THRESHOLD })

\* C19: with an LLM tier that always raises, no ML tier, threshold T and
\* requests issued one after another inside the recovery window, each of the
\* first T low-confidence calls invokes the LLM and returns the heuristic result
\* with the LLM-failure notice; the breaker is open after the T-th of them and
\* not before; every later low-confidence call returns the heuristic result
\* with the circuit-breaker notice, invokes no LLM and adds 1 to
\* circuit_breaker_trips.
C19_AlwaysFailingLLM ==
    [][\A r \in Reqs :
        LET T == circuit_breaker.failure_threshold
            k == LowBefore(r) + 1
            h == HeuristicClassify(frame'[r].task_description)
        IN
          /\ (Starts(r) /\ frame'[r].heuristic_result.confidence < HEURISTIC_THRESHOLD) =>
                IF k <= T
                THEN /\ task'[r] = "await_llm" /\ calls'[r].llm = 1
                     /\ metrics'.circuit_breaker_trips = metrics.circuit_breaker_trips
                ELSE /\ pc'[r] = "returned"
                     /\ result'[r] = Annotate(h, CIRCUIT_NOTICE)
                     /\ result'[r].classifier_used = "heuristic"
                     /\ calls'[r].llm = 0
                     /\ metrics'.circuit_breaker_trips = metrics.circuit_breaker_trips + 1
                     /\ circuit_breaker'.is_open
          /\ LLMFails(r) =>
                /\ k <= T
                /\ pc'[r] = "returned"
                /\ result'[r] = Annotate(h, LLM_FAILED_NOTICE)
                /\ result'[r].classifier_used = "heuristic"
                /\ circuit_breaker'.is_open <=> k = T]_vars

\* C19 witness: with T = 1 the first call invoked the LLM and came back with
\* the failure notice, the second came back with the circuit-breaker notice
\* without invoking the LLM, and one trip is counted.
C19_Witness ==
    /\ circuit_breaker.failure_threshold = 1
    /\ pc[1] = "returned" /\ calls[1].llm = 1
    /\ Head(result[1].reasoning) = LLM_FAILED_NOTICE
    /\ pc[2] = "returned" /\ calls[2].llm = 0
    /\ Head(result[2].reasoning) = CIRCUIT_NOTICE
    /\ result[2].classifier_used = "heuristic"
    /\ metrics.circuit_breaker_trips = 1
    /\ circuit_breaker.is_open

ZeroSummary ==
    [ total_classifications |-> 0, heuristic_used |-> 0, ml_used |-> 0,
      llm_used |-> 0, heuristic_percent |-> ZeroPercent,
      ml_percent |-> ZeroPercent, llm_percent |-> ZeroPercent,
      average_latency_ms |-> ZeroPercent, circuit_breaker_trips |-> 0,
      timeouts |-> 0 ]

\* C21: reset_metrics() leaves every counter and the latency sum at zero,
\* whatever preceded it, and they stay at zero until a classify() call ends:
\* get_metrics() read in between returns zeros only.
C21_ResetZeroesEverything ==
    [][/\ reset_metrics =>
            /\ metrics' = NewMetrics
            /\ get_summary(metrics') = ZeroSummary
       /\ (metrics = NewMetrics /\ \A r \in Reqs : ~Ends(r)) =>
            /\ metrics' = NewMetrics
            /\ get_summary(metrics') = ZeroSummary]_vars

\* C21 witness: an LLM failure, a circuit breaker trip and two recorded
\* classifications preceded, and every counter is zero.
C21_Witness ==
    /\ \E r \in Reqs : frame[r].llm_raised /\ pc[r] = "returned"
    /\ \E r \in Reqs : frame[r].denied /\ pc[r] = "returned"
    /\ metrics = NewMetrics
    /\ get_summary(metrics) = ZeroSummary

\* C22: record_classification(tier, latency) adds 1 to total_classifications
\* and latency to the latency sum; it adds 1 to the per-tier counter named by
\* tier and to no other, and to none when tier is not "heuristic", "ml" or
\* "llm"; circuit_breaker_trips and timeouts are unchanged.
C22_RecordClassification ==
    [][\A l \in Labels, lat \in Latencies :
          MRecord(l, lat) =>
            /\ metrics'.total_classifications = metrics.total_classifications + 1
            /\ metrics'.total_latency_ms = metrics.total_latency_ms + lat
            /\ \A t \in {"heuristic", "ml", "llm"} :
                  Used(metrics', t) = Used(metrics, t) + (IF t = l THEN 1 ELSE 0)
            /\ metrics'.circuit_breaker_trips = metrics.circuit_breaker_trips
            /\ metrics'.timeouts = metrics.timeouts]_vars

\* C22 witness: after a trip and a timeout were counted, one classification of
\* an unknown label and latency 1 and one of label "ml" were recorded.
C22_Witness ==
    /\ metrics.total_classifications = 2
    /\ metrics.ml_used = 1 /\ metrics.heuristic_used = 0 /\ metrics.llm_used = 0
    /\ metrics.total_latency_ms = 1
    /\ metrics.circuit_breaker_trips = 1 /\ metrics.timeouts = 1

\* C23: no update of the shared metrics or breaker is lost: every classify()
\* call that ends adds exactly 1 to total_classifications, so N calls that all
\* end with no reset add exactly N, and every LLM failure recorded adds exactly
\* 1 to failure_count.
C23_NoLostUpdate ==
    [][\A r \in Reqs :
          /\ Ends(r) =>
                metrics'.total_classifications = metrics.total_classifications + 1
          /\ (enable_circuit_breaker /\ LLMFails(r)) =>
                circuit_breaker'.failure_count = circuit_breaker.failure_count + 1]_vars

\* C24: every summary get_metrics() can return lies between two complete
\* updates: a step that counts a trip or a timeout also counts the
\* classification record of the same request, and the percentages and the
\* average are those of the counters of the same summary.
C24_ConsistentSnapshot ==
    [][LET before == get_summary(metrics)
           after == get_summary(metrics')
       IN  /\ (after.circuit_breaker_trips > before.circuit_breaker_trips
                 \/ after.timeouts > before.timeouts) =>
                 after.total_classifications = before.total_classifications + 1
           /\ after.total_classifications > 0 =>
                 /\ after.heuristic_percent =
                       << 100 * after.heuristic_used, after.total_classifications >>
                 /\ after.ml_percent =
                       << 100 * after.ml_used, after.total_classifications >>
                 /\ after.llm_percent =
                       << 100 * after.llm_used, after.total_classifications >>]_vars

\* what the call of request r that ends in this step adds to metrics m
Contributed(m, r) ==
    LET f == frame'[r]
        latency_ms == IF Starts(r) \/ f.timed_out THEN 0
                      ELSE now - frame[r].overall_start
        m1 == IF f.timed_out THEN [m EXCEPT !.timeouts = @ + 1]
              ELSE IF f.denied THEN [m EXCEPT !.circuit_breaker_trips = @ + 1]
              ELSE m
    IN  IF pc'[r] = "raised" THEN m1
        ELSE record_classification(m1, result'[r].classifier_used, latency_ms)

\* C25: between the steps of in-flight calls reset_metrics() may run at any
\* point; every step is then a reset, or leaves the metrics alone, or adds the
\* whole update of the one call that ends in it to the metrics as they are at
\* that step (those of after the reset, if one came before): no update is
\* split over a reset, and the counters after a reset are the sum of the
\* updates recorded since.
C25_ResetBetweenUpdates ==
    [][\/ reset_metrics
       \/ metrics' = metrics /\ \A r \in Reqs : ~Ends(r)
       \/ \E r \in Reqs : Ends(r) /\ metrics' = Contributed(metrics, r)]_vars

\* C25 witness: the first call recorded its LLM-failure fallback before a
\* reset, the second its trip and its circuit-open fallback after it: the
\* metrics hold the whole update of the second call and nothing of the first.
C25_Witness ==
    /\ pc[1] = "returned" /\ frame[1].llm_raised
    /\ pc[2] = "returned" /\ frame[2].denied
    /\ metrics.total_classifications = 1
    /\ metrics.circuit_breaker_trips = 1
    /\ Used(metrics, result[2].classifier_used) = 1

\* C26: within one request the tiers run in the order heuristic, ML, LLM, each
\* at most once: the ML call is started only with the heuristic result known
\* and below 0.85; the LLM call only after the ML call of the request, if there
\* is an ML tier, has returned below 0.70 or raised; a request that ran to its
\* end without a tier skipped it because there is no ML tier, because an
\* earlier tier met its threshold, or because the breaker denied the attempt.
C26_TierOrder ==
    \A r \in Reqs :
        LET f == frame[r]
            known == f.heuristic_result # Unbound
            low == f.heuristic_result.confidence < HEURISTIC_THRESHOLD
        IN
        /\ calls[r].ml <= 1 /\ calls[r].llm <= 1
        /\ calls[r].ml = 1 =>
              ml_classifier /\ known /\ low /\ calls[r].heuristic >= 1
        /\ task[r] = "await_ml" =>
              calls[r].ml = 1 /\ calls[r].llm = 0 /\ ~MLFinished(f)
        /\ calls[r].llm = 1 =>
              /\ known /\ low /\ ~f.denied
              /\ ml_classifier =>
                    /\ calls[r].ml = 1
                    /\ f.ml_raised \/ f.ml_result.confidence < ML_THRESHOLD
                    /\ MLFinished(f)
        /\ task[r] = "await_llm" => calls[r].llm = 1
        /\ (pc[r] # "idle" /\ calls[r].ml = 0) =>
              known /\ (~ml_classifier \/ ~low)
        /\ (pc[r] # "idle" /\ calls[r].llm = 0 /\ task[r] # "await_ml"
               /\ ~f.timed_out) =>
              \/ ~low
              \/ f.ml_result # Unbound /\ f.ml_result.confidence >= ML_THRESHOLD
              \/ f.denied /\ enable_circuit_breaker

\* C26 witness: a request is in its LLM call after its heuristic and its ML
\* call, the latter returned with confidence 0.69; another got the LLM result
\* after its ML call raised.
C26_Witness ==
    \E r1, r2 \in Reqs :
        /\ task[r1] = "await_llm"
        /\ calls[r1] = [heuristic |-> 1, ml |-> 1, llm |-> 1]
        /\ frame[r1].ml_result = MLResult(ML_THRESHOLD - 1)
        /\ calls[r2] = [heuristic |-> 1, ml |-> 1, llm |-> 1]
        /\ frame[r2].ml_raised /\ result[r2] = LLMResult

\* C27: the deadline is per request: it fires for a request only when
\* CLASSIFICATION_TIMEOUT has passed since that request's own start, it
\* cancels the tier call of that request alone, and it leaves the position,
\* the task, the locals and the result of every other request, and the
\* breaker, as they were; the metrics change by the timeout and the heuristic
\* record of the timed-out request only.
C27_DeadlinePerRequest ==
    [][\A r \in Reqs :
          DeadlineFires(r) =>
            /\ now - frame[r].overall_start >= ClassificationTimeout
            /\ task[r] \in Awaiting /\ task'[r] = "cancelled"
            /\ \A q \in Reqs \ {r} :
                  /\ pc'[q] = pc[q] /\ task'[q] = task[q]
                  /\ frame'[q] = frame[q] /\ result'[q] = result[q]
                  /\ calls'[q] = calls[q]
            /\ circuit_breaker' = circuit_breaker
            /\ metrics' = record_classification(
                             [metrics EXCEPT !.timeouts = @ + 1], "heuristic", 0)]_vars

\* C27 witness: the first request timed out at the instant its deadline was
\* reached while the second, started before that instant, is still in its
\* tier call.
C27_Witness ==
    /\ now = ClassificationTimeout
    /\ pc[1] = "returned" /\ frame[1].timed_out /\ task[1] = "cancelled"
    /\ pc[2] = "waiting" /\ task[2] \in Awaiting
    /\ frame[2].overall_start < now

\* two calls with the same request have both returned
BothReturned(r1, r2) ==
    /\ r1 # r2
    /\ pc[r1] = "returned" /\ pc[r2] = "returned"
    /\ frame[r1].task_description = frame[r2].task_description

\* C28 as stated: with tiers of fixed outcome, two calls with the same request
\* return the same confidence, whatever state the breaker was left in.
C28_Original ==
    \A r1, r2 \in Reqs :
        BothReturned(r1, r2) => result[r1].confidence = result[r2].confidence

\* C28 (amended): with tiers of fixed outcome, two calls with the same request
\* return the same tier and the same confidence provided the breaker denied
\* the LLM attempt of both or of neither, and the deadline fired for both or
\* for neither.
C28_SameRequestSameResult ==
    \A r1, r2 \in Reqs :
        (BothReturned(r1, r2) /\ frame[r1].denied = frame[r2].denied
                              /\ frame[r1].timed_out = frame[r2].timed_out) =>
            /\ result[r1].confidence = result[r2].confidence
            /\ result[r1].classifier_used = result[r2].classifier_used

\* C28 witness: two calls with the same low-confidence request both got the
\* LLM result, the second after the breaker, open at first, had recovered.
C28_Witness ==
    /\ BothReturned(1, 2)
    /\ result[1] = LLMResult /\ result[2] = LLMResult
    /\ metrics.llm_used = 2
    /\ circuit_breaker.last_failure_time = 0

\* C29: every classify() call eventually returns a result, even when its ML or
\* LLM call never completes: the deadline then fires and the heuristic
\* fallback is returned.
C29_EventuallyReturns ==
    \A r \in Reqs : (pc[r] = "waiting") ~> (pc[r] = "returned")

\* the number of failure notices in a reasoning
NoticesIn(reasoning) ==
    Cardinality({ i \in 1..Len(reasoning) : reasoning[i] \in Notices })

\* C30: the reasoning of a returned result starts with a failure notice
\* exactly when the result is a fallback: the timeout notice on the timeout
\* path, the circuit-breaker notice on the circuit-open path, the LLM-failed
\* notice on the LLM-failure path, once, in front of the reasoning of the
\* fallback tier; a result accepted by the heuristic or the ML threshold and
\* the result of a successful LLM attempt come back as the tier gave them.
C30_NoticeIffFallback ==
    \A r \in Reqs :
        pc[r] = "returned" =>
            LET f == frame[r]
                res == result[r]
                fallback == f.timed_out \/ f.denied \/ f.llm_raised
            IN  /\ NoticesIn(res.reasoning) = (IF fallback THEN 1 ELSE 0)
                /\ f.timed_out =>
                      res = Annotate(HeuristicClassify(f.task_description), TIMEOUT_NOTICE)
                /\ f.denied => res = Annotate(BestFallback(f), CIRCUIT_NOTICE)
                /\ f.llm_raised => res = Annotate(BestFallback(f), LLM_FAILED_NOTICE)
                /\ fallback => Head(res.reasoning) \in Notices
                /\ ~fallback =>
                      res \in {HeuristicClassify(f.task_description), f.ml_result, LLMResult}

\* C30 witness: one call returned the ML result with the LLM-failed notice in
\* front of the ML reasoning, another the LLM result as the LLM gave it.
C30_Witness ==
    \E r1, r2 \in Reqs :
        /\ pc[r1] = "returned" /\ frame[r1].llm_raised
        /\ result[r1].classifier_used = "ml"
        /\ Head(result[r1].reasoning) = LLM_FAILED_NOTICE
        /\ pc[r2] = "returned" /\ result[r2] = LLMResult

\* no request moves in this step
NoRequestStep ==
    pc' = pc /\ task' = task /\ frame' = frame /\ result' = result /\ calls' = calls

\* C31: a request whose LLM call is abandoned by the deadline reports nothing
\* to the breaker: the step of the deadline leaves the breaker as it was, and
\* failure_count grows and last_failure_time moves only in a step in which the
\* LLM call of some request raises; a request that timed out is never such a
\* request.
C31_AbandonedLLMCallTellsBreakerNothing ==
    [][/\ \A r \in Reqs : DeadlineFires(r) => circuit_breaker' = circuit_breaker
       /\ (circuit_breaker'.failure_count > circuit_breaker.failure_count
             \/ circuit_breaker'.last_failure_time # circuit_breaker.last_failure_time) =>
             \E r \in Reqs : LLMFails(r) /\ ~frame[r].timed_out
       /\ (~circuit_breaker.is_open /\ circuit_breaker'.is_open) =>
             \E r \in Reqs : LLMFails(r)]_vars

\* C31 witness: with a breaker, the LLM calls of all requests stalled past the
\* deadline, and the breaker is closed and has seen no failure.
C31_Witness ==
    /\ enable_circuit_breaker
    /\ \A r \in Reqs : frame[r].timed_out /\ calls[r].llm = 1 /\ pc[r] = "returned"
    /\ circuit_breaker = NewCircuitBreaker

\* request r is settled by the heuristic or by the ML threshold in this step
SettledEarly(r) ==
    \/ Starts(r) /\ frame'[r].heuristic_result.confidence >= HEURISTIC_THRESHOLD
    \/ /\ task[r] = "await_ml" /\ frame'[r].ml_result # Unbound
       /\ frame'[r].ml_result.confidence >= ML_THRESHOLD

\* C32: the breaker is read and changed at the LLM stage only: a step that
\* settles a request by the heuristic or the ML threshold, and the step that
\* starts an ML call, leave the breaker as it was, open and past its window
\* included; the step in which an ML call raises never increments
\* failure_count nor moves last_failure_time.
C32_BreakerOnlyAtLLMStage ==
    [][\A r \in Reqs :
          /\ SettledEarly(r) => circuit_breaker' = circuit_breaker
          /\ (Starts(r) /\ task'[r] = "await_ml") => circuit_breaker' = circuit_breaker
          /\ (~frame[r].ml_raised /\ frame'[r].ml_raised) =>
                /\ circuit_breaker'.failure_count <= circuit_breaker.failure_count
                /\ circuit_breaker'.last_failure_time = circuit_breaker.last_failure_time]_vars

\* C32 witness: the breaker is open and past its recovery window, and a
\* request settled by the heuristic threshold has returned.
C32_Witness ==
    /\ enable_circuit_breaker
    /\ Elapsed(circuit_breaker, now)
    /\ pc[1] = "returned" /\ frame[1].llm_raised
    /\ pc[2] = "returned" /\ calls[2] = [heuristic |-> 1, ml |-> 0, llm |-> 0]
    /\ result[2].confidence >= HEURISTIC_THRESHOLD

\* C33: the two resets are independent: a step that clears the metrics with no
\* request moving leaves the breaker as it was, and a step that changes the
\* breaker with no request moving leaves the metrics, circuit_breaker_trips
\* included, and last_failure_time as they were.
C33_ResetsIndependent ==
    [][NoRequestStep =>
          /\ metrics' # metrics =>
                metrics' = NewMetrics /\ circuit_breaker' = circuit_breaker
          /\ circuit_breaker' # circuit_breaker =>
                /\ metrics' = metrics
                /\ circuit_breaker'.last_failure_time = circuit_breaker.last_failure_time
                /\ ~circuit_breaker'.is_open /\ circuit_breaker'.failure_count = 0]_vars

\* C33 witness: after an LLM failure and a trip, the breaker was reset inside
\* its window, and the trip, both records and the time of the failure are kept.
C33_Witness ==
    /\ enable_circuit_breaker
    /\ pc[1] = "returned" /\ frame[1].llm_raised
    /\ pc[2] = "returned" /\ frame[2].denied
    /\ metrics.circuit_breaker_trips = 1 /\ metrics.total_classifications = 2
    /\ ~circuit_breaker.is_open /\ circuit_breaker.failure_count = 0
    /\ circuit_breaker.last_failure_time # -1
    /\ now - circuit_breaker.last_failure_time < RecoveryTimeout

\* the number of LLM attempts in progress
InFlightLLM == Cardinality({ r \in Reqs : task[r] = "await_llm" })

\* the larger of two numbers
Larger(a, b) == IF a >= b THEN a ELSE b

\* C34: failure_count is bounded. An LLM attempt is admitted only with
\* failure_count below failure_threshold; failure_count plus the number of
\* attempts in progress grows only when an attempt is admitted, and is then at
\* most failure_threshold - 1 plus the attempts in progress. So with at most N
\* requests in flight failure_count never exceeds failure_threshold - 1 + N
\* (here N = NReq), and with one request at a time it never exceeds
\* failure_threshold.
C34_FailureCountBounded ==
    [][enable_circuit_breaker =>
          LET T == circuit_breaker.failure_threshold IN
          /\ circuit_breaker'.failure_count <= T - 1 + NReq
          /\ \A r \in Reqs : StartsLLM(r) => circuit_breaker'.failure_count < T
          /\ circuit_breaker'.failure_count + InFlightLLM'
                <= Larger(circuit_breaker.failure_count + InFlightLLM,
                          T - 1 + InFlightLLM')
          /\ (InFlightLLM = 1 /\ circuit_breaker.failure_count < T) =>
                circuit_breaker'.failure_count <= T]_vars

\* C34 witness: the bound is reached: all NReq requests were admitted while
\* the breaker was closed, and all of their LLM calls failed.
C34_Witness ==
    /\ enable_circuit_breaker
    /\ circuit_breaker.failure_count = circuit_breaker.failure_threshold - 1 + NReq
    /\ \A r \in Reqs : frame[r].llm_raised
    /\ InFlightLLM = 0

\* C35: the recovery window runs from the most recent record_failure(): a
\* failure reported while the breaker is already open moves last_failure_time
\* to the time of that failure and leaves the breaker open, and can_attempt()
\* is false at every time less than recovery_timeout after it, the end of the
\* window of the earlier failure included.
C35_WindowFromLastFailure ==
    [][\A r \in Reqs :
          (enable_circuit_breaker /\ LLMFails(r) /\ circuit_breaker.is_open) =>
            /\ circuit_breaker'.is_open
            /\ circuit_breaker'.last_failure_time = now
            /\ \A t \in Time :
                  (t >= now /\ t - now < RecoveryTimeout) =>
                      ~can_attempt(circuit_breaker', t).ok
            /\ can_attempt(circuit_breaker', now + RecoveryTimeout).ok]_vars

\* C35 witness: a second failure was reported at time 1 with the breaker open;
\* at time RecoveryTimeout, where a window begun at time 0 would have ended,
\* can_attempt() is false.
C35_Witness ==
    /\ enable_circuit_breaker
    /\ circuit_breaker.is_open
    /\ circuit_breaker.failure_count = circuit_breaker.failure_threshold + 1
    /\ circuit_breaker.last_failure_time = 1
    /\ now = RecoveryTimeout
    /\ ~can_attempt(circuit_breaker, now).ok

\* C36: timeouts <= heuristic_used <= total_classifications in every state:
\* every timeout counted comes with one classification recorded under
\* "heuristic".
C36_TimeoutsAreHeuristic ==
    /\ metrics.timeouts <= metrics.heuristic_used
    /\ metrics.heuristic_used <= metrics.total_classifications

\* C36 witness: with an ML tier, two calls timed out and nothing else was
\* recorded since: timeouts = heuristic_used = total_classifications = 2.
C36_Witness ==
    /\ ml_classifier
    /\ metrics.timeouts = 2
    /\ metrics.heuristic_used = 2
    /\ metrics.total_classifications = 2

\* ------------------------------------------------------------- model versions
\* call s of save_model_version() has returned
Completed(s) == save[s].pc \in {"saved", "error", "skipped"}

\* call s of save_model_version() is between its first statement and its return
InFlightSave(s) == save[s].pc \in {"insert", "update"}

\* the step on which call s of save_model_version() returns
Completes(s) == InFlightSave(s) /\ Completed(s)'

\* the stored versions with is_active = TRUE
ActiveVersions == {v \in Versions : model_versions[v] = "active"}

\* C37: when save_model_version() with is_active = true completes on a
\* connected repository, the saved version is active and every other stored
\* version is inactive; and whenever no save is in flight, at most one stored
\* version is active.
C37_ActiveSaveLeavesItActive ==
    [][ /\ \A s \in Savers :
              (pool /\ Completes(s) /\ save[s].is_active)
                  => ActiveVersions' = {save[s].version}
        /\ (\A s \in Savers : ~InFlightSave(s)')
                  => Cardinality(ActiveVersions') <= 1 ]_vars

\* ------------------------------------------------------------- sufficient samples
\* the usable rows the two sample tables hold together
UsableRows == training_samples + classification_feedback

\* C38: on a connected repository retrain_model answers "insufficient_data"
\* if and only if the two tables together hold fewer than min_samples usable
\* rows; with at least min_samples usable rows the retraining proceeds.
C38_InsufficientIffTooFewRows ==
    (pool /\ response # "none")
        => (response = "insufficient_data" <=> UsableRows < min_samples)
====
